---- MODULE Spec2Model ----
(***************************************************************************)
(* Role management subsystem of shell_gpt (sgpt/role.py) and the bash      *)
(* output extractor of sgpt/integration.py.                                *)
(*                                                                         *)
(* Text representation.  A text is a sequence of lexemes (TLA+ strings).   *)
(* The lexemes the code searches for or acts on are always lexemes of      *)
(* their own: one blank " ", one tab, one line break "\n"; in role texts  *)
(* the words "You are" and a format field such as "{shell}"; in model      *)
(* output the backtick and the word "bash".  Every other lexeme is an      *)
(* opaque run of characters that neither contains one of these nor starts  *)
(* or ends with white space.  Under this convention two texts are equal    *)
(* iff their lexeme sequences are, and substring search, splitting,        *)
(* stripping and line splitting act on whole lexemes.                      *)
(***************************************************************************)
EXTENDS Integers, Sequences, FiniteSets, TLC

VARIABLES
    files,            \* role store: name -> persisted record, or Absent
    imported,         \* the module has been imported by the running process
    ops,              \* number of store operations performed so far
    result,           \* outcome of the last store operation
    initial_message,  \* argument of get_role_name
    role_name,        \* value returned (or exception raised) by get_role_name
    template,         \* argument "role" of SystemRole.__init__
    variables,        \* argument "variables" of SystemRole.__init__
    instance,         \* the constructed SystemRole, or the exception raised
    markdown_text,    \* argument of _parse_first_markdown / model response
    escaped,          \* TRUE: the script text after Python evaluated "\n"
    parsed,           \* output of _parse_first_markdown
    READLINE_LINE,    \* bash line editor buffer
    READLINE_POINT,   \* bash line editor cursor
    fixed             \* the fix handler has run on the current buffer

vars == <<files, imported, ops, result, initial_message, role_name,
          template, variables, instance, markdown_text, escaped, parsed,
          READLINE_LINE, READLINE_POINT, fixed>>

storeVars == <<files, imported, ops, result>>
nameVars == <<initial_message, role_name>>
initVars == <<template, variables, instance>>
shellVars == <<markdown_text, escaped, parsed, READLINE_LINE, READLINE_POINT, fixed>>

(***************************************************************************)
(* Bounds of the model.                                                    *)
(***************************************************************************)
MaxMsgLen == 3
MaxOps == 3
MaxLines == 4

(***************************************************************************)
(* Text helpers (Python str methods on lexeme sequences).                  *)
(***************************************************************************)
NL == "\n"

IsSpace(t) == t \in {" ", "\t"}

\* The sequences over S of length at most n.
SeqsUpTo(S, n) == UNION {[1..k -> S] : k \in 0..n}

\* pat in s
Contains(s, pat) ==
    \E i \in 1..(Len(s) - Len(pat) + 1) : SubSeq(s, i, i + Len(pat) - 1) = pat

\* Index of the first occurrence of pat in s, 0 if there is none.
Find(s, pat) ==
    IF Contains(s, pat)
    THEN CHOOSE i \in 1..(Len(s) - Len(pat) + 1) :
            /\ SubSeq(s, i, i + Len(pat) - 1) = pat
            /\ \A j \in 1..(i - 1) : SubSeq(s, j, j + Len(pat) - 1) # pat
    ELSE 0

\* s.split(pat): the pieces of s between the occurrences of pat.
RECURSIVE Split(_, _)
Split(s, pat) ==
    LET i == Find(s, pat)
    IN  IF i = 0 THEN <<s>>
        ELSE <<SubSeq(s, 1, i - 1)>> \o Split(SubSeq(s, i + Len(pat), Len(s)), pat)

\* s.splitlines(): no line for the empty text, no empty line after a final break.
RECURSIVE splitlines(_)
splitlines(s) ==
    IF s = <<>> THEN <<>>
    ELSE LET i == Find(s, <<NL>>)
         IN  IF i = 0 THEN <<s>>
             ELSE <<SubSeq(s, 1, i - 1)>> \o splitlines(SubSeq(s, i + 1, Len(s)))

RECURSIVE LStrip(_)
LStrip(s) == IF s # <<>> /\ IsSpace(Head(s)) THEN LStrip(Tail(s)) ELSE s

RECURSIVE RStrip(_)
RStrip(s) ==
    IF s # <<>> /\ IsSpace(s[Len(s)]) THEN RStrip(SubSeq(s, 1, Len(s) - 1)) ELSE s

\* s.strip()
Strip(s) == RStrip(LStrip(s))

(***************************************************************************)
(* SystemRole.get_role_name                                                *)
(***************************************************************************)
None == [status |-> "None", value |-> <<>>]
Raise(e) == [status |-> e, value |-> <<>>]
Return(v) == [status |-> "ok", value |-> v]
Pending == [status |-> "pending", value |-> <<>>]

\* get_role_name taking the piece before the marker instead of the one after.
get_role_name_piece_before(msg) ==
    IF msg = <<>> THEN None
    ELSE LET message_lines == splitlines(msg)
         IN  IF Contains(message_lines[1], <<"You are">>)
             THEN Return(Strip(Split(message_lines[1], <<"You are", " ">>)[1]))
             ELSE None

get_role_name(msg) ==
    IF msg = <<>> THEN None
    ELSE LET message_lines == splitlines(msg)
         IN  IF Contains(message_lines[1], <<"You are">>)
             THEN LET parts == Split(message_lines[1], <<"You are", " ">>)
                  IN  IF Len(parts) < 2 THEN Raise("IndexError")
                      ELSE Return(Strip(parts[2]))
             ELSE None

(***************************************************************************)
(* Values the variables of the other components hold while one component  *)
(* is being exercised.                                                     *)
(***************************************************************************)
Absent == [name |-> "", role |-> <<>>]
\* The outcome of constructing or loading a SystemRole.
InstPending == [status |-> "pending", value |-> Absent]
InstRaise(e) == [status |-> e, value |-> Absent]
InstReturn(r) == [status |-> "ok", value |-> r]

NoResult == [op |-> "none", name |-> "", status |-> "none", prompts |-> 0,
             declined |-> FALSE, added |-> {}, flags |-> <<>>, out |-> Absent]

StoreIdle ==
    /\ files = <<>>
    /\ imported = FALSE
    /\ ops = 0
    /\ result = NoResult

NameIdle ==
    /\ initial_message = <<>>
    /\ role_name = Pending

InitIdle ==
    /\ template = <<>>
    /\ variables = <<>>
    /\ instance = InstPending

ShellIdle ==
    /\ markdown_text = <<>>
    /\ escaped = FALSE
    /\ parsed = Pending
    /\ READLINE_LINE = <<>>
    /\ READLINE_POINT = 0
    /\ fixed = FALSE

(***************************************************************************)
(* Transcript identification: get_role_name applied to a first message.   *)
(***************************************************************************)
MsgLexemes == {"You are", " ", NL, "Bob", "n't"}
Messages == SeqsUpTo(MsgLexemes, MaxMsgLen)

NameInit ==
    /\ initial_message \in Messages
    /\ role_name = Pending
    /\ StoreIdle /\ InitIdle /\ ShellIdle

CallGetRoleName ==
    /\ role_name = Pending
    /\ role_name' = get_role_name(initial_message)
    /\ UNCHANGED <<initial_message, storeVars, initVars, shellVars>>

NameNext == CallGetRoleName

NameSpec == NameInit /\ [][NameNext]_vars

\* The first line of a message (the empty text has an empty first line).
FirstLine(msg) == IF splitlines(msg) = <<>> THEN <<>> ELSE splitlines(msg)[1]

Marker == <<"You are", " ">>

\* C10: get_role_name is total: it returns the name after the marker
\* "You are " when the first line holds the marker, None otherwise, and it
\* raises for no input.
C10_Total ==
    role_name # Pending =>
        /\ role_name.status \in {"ok", "None"}
        /\ Contains(FirstLine(initial_message), Marker) <=> role_name.status = "ok"
        /\ role_name.status = "ok" =>
              \E i \in 1..Len(FirstLine(initial_message)) :
                  /\ SubSeq(FirstLine(initial_message), i, i + 1) = Marker
                  /\ \E j \in (i + 1)..Len(FirstLine(initial_message)) :
                        role_name.value =
                            Strip(SubSeq(FirstLine(initial_message), i + 2, j))

(***************************************************************************)
(* Role templates (sgpt/role.py), lexed by the convention above.           *)
(***************************************************************************)
SHELL_ROLE ==
    <<"You are", " ", "a", " ", "{shell}", " ",
      "shell command generator for", " ", "{os}", NL,
      "Generate only valid bash commands, without explanations or additional text.",
      NL,
      "Handle incomplete prompts by providing the most logical solution.",
      NL, "Combine multiple steps using && when necessary.", NL,
      "Output plain text only, without formatting or markdown.", NL,
      "Ensure commands are concise, efficient, and adhere to best practices.",
      NL,
      "Consider edge cases and potential errors, and handle them appropriately.",
      NL,
      "Optimize commands for performance and resource usage when relevant.",
      NL, "Use clear and standard syntax, following bash conventions.", NL,
      "Remember, output the command described in natural language, then stop typing anything.",
      NL,
      "Any text after the first newline is going to be discarded unless you choose to place the",
      " ", "{shell}", " ", "shell text in markdown.", NL,
      "The task prescribed to you is only to translate from natural language to",
      " ", "{shell}", " ", "shell commands.">>

DESCRIBE_SHELL_ROLE ==
    <<"You are", " ", "a Shell Command Descriptor.", NL, "For a given", " ",
      "{shell}", " ", "shell command in", " ", "{os}", NL,
      "* Provide a concise, single-sentence description.", NL,
      "* Explain each argument and option of the command in a brief paragraph.",
      NL,
      "* Use Markdown formatting with triple or single backticks when appropriate, ensuring proper syntax with opening and closing backticks.",
      NL,
      "* Keep text inside Markdown concise and descriptions as short as possible.",
      NL,
      "* Use clear, technical language and maintain a consistent structure for each command description.",
      NL,
      "* Highlight key aspects such as required vs. optional arguments and default behaviors.",
      NL,
      "* Provide usage examples if necessary for clarity, using Markdown for code blocks.",
      NL, "* Ensure accuracy and completeness in your descriptions.">>

SHELL_COMMAND_FIXER_ROLE ==
    <<"You are", " ", "a", " ", "{shell}", " ",
      "Shell Command Fixer operating within a controlled installation of",
      " ", "{os}", NL, "Analyze single-line", " ", "{shell}", " ",
      "commands for potential errors.", NL,
      "If erroneous, provide a corrected command that is both valid and optimized.",
      NL,
      "Address common errors like incorrect flags, missing arguments, or syntax issues.",
      NL, "Consider edge cases and potential unintended consequences.", NL,
      "Explain corrections concisely using Markdown formatting.", NL,
      "Suggest alternative approaches when applicable.", NL,
      "Output valid commands verbatim.", NL,
      "Ensure that you take reasonable steps to ensure compatibility with the user's",
      " ", "{shell}", " ", "shell version and OS.", NL,
      "Output the fixed or original command followed by any explanations or suggestions.",
      NL, "Avoid placeholders unless present in the original command.", NL,
      "Prioritize working solutions that align with the user's intent, avoiding unnecessary simplification.">>

CODE_ROLE ==
    <<"You are", " ", "a Code Generator.", NL,
      "Generate code snippets or scripts based on the provided prompt.", NL,
      "Output the code directly, without explanations or descriptions.", NL,
      "Use plain text format without markdown or code delimiters.", NL,
      "Assume the most logical solution for incomplete prompts.", NL,
      "Focus on concise, functional code adhering to best practices.", NL,
      "Infer the programming language from the prompt if not specified.", NL,
      "Prioritize code clarity and brevity.", NL>>

DEFAULT_ROLE ==
    <<"You are", " ", "ShellGPT, a", " ", "{os}", " ",
      "system administrator with expertise in the", " ", "{shell}", " ",
      "shell.", NL,
      "Respond concisely, aiming for around 100 words unless more detail is needed.",
      NL,
      "Utilize Markdown formatting for commands (bash code blocks) and code tools (Python Jupyter notebook cells).",
      NL, "Explain complex topics clearly, using examples when beneficial.",
      NL,
      "Adapt your communication style to the user's specific requirements.",
      NL, "Assume data storage within the conversation context.", NL,
      "Provide step-by-step guidance for tasks and troubleshooting.", NL,
      "Prioritize accurate, efficient solutions based on best practices.",
      NL,
      "Generate executable code and shell commands without requiring modifications.",
      NL, "Prompt for additional information when necessary.", NL,
      "Focus on fulfilling the user's specific needs.", NL>>

\* ROLE_TEMPLATE.format(name=name, role=role)
ROLE_TEMPLATE(name, role) == <<"You are", " ", name, NL>> \o role

(***************************************************************************)
(* str.format with a mapping, on a role text.                               *)
(***************************************************************************)
FieldName == [f \in {"{shell}", "{os}", "{user}"} |->
                 CASE f = "{shell}" -> "shell"
                   [] f = "{os}" -> "os"
                   [] f = "{user}" -> "user"]

IsField(t) == t \in DOMAIN FieldName

\* The fields a text references.
FieldsOf(role) == {FieldName[role[i]] : i \in {j \in 1..Len(role) : IsField(role[j])}}

\* A format that leaves a field without a value in place instead of failing.
FormatLenient(role, map) ==
    Return([i \in 1..Len(role) |->
               IF IsField(role[i]) /\ FieldName[role[i]] \in DOMAIN map
               THEN map[FieldName[role[i]]]
               ELSE role[i]])

\* role.format with the mapping map: KeyError when a referenced field has no value.
Format(role, map) ==
    IF \E k \in FieldsOf(role) : k \notin DOMAIN map
    THEN Raise("KeyError")
    ELSE Return([i \in 1..Len(role) |->
                    IF IsField(role[i]) THEN map[FieldName[role[i]]] ELSE role[i]])

(***************************************************************************)
(* SystemRole                                                              *)
(***************************************************************************)
\* The argument "variables": omitted (None) or a mapping, possibly empty.
NoVariables == [given |-> FALSE, map |-> <<>>]
Mapping(m) == [given |-> TRUE, map |-> m]

\* SystemRole.__init__: the text is formatted only under a truthy mapping.
SystemRole(name, role, vs) ==
    IF vs.given /\ DOMAIN vs.map # {}
    THEN LET f == Format(role, vs.map)
         IN  IF f.status = "ok"
             THEN InstReturn([name |-> name, role |-> f.value])
             ELSE InstRaise(f.status)
    ELSE InstReturn([name |-> name, role |-> role])

\* SystemRole._exists
Exists(fs, name) == fs[name] # Absent

\* A _save that writes the file before it asks for the confirmation.
SaveThenConfirm(fs, self, answer) ==
    [files |-> [fs EXCEPT ![self.name] =
                   [name |-> self.name,
                    role |-> <<"You are", " ", self.name, NL>> \o self.role]],
     status |-> IF fs[self.name] # Absent /\ ~answer THEN "Abort" ELSE "ok",
     prompts |-> IF fs[self.name] # Absent THEN 1 ELSE 0]

\* A _save that writes the role text without the header.
SaveNoHeader(fs, self, answer) ==
    IF fs[self.name] # Absent /\ ~answer
    THEN [files |-> fs, status |-> "Abort", prompts |-> 1]
    ELSE [files |-> [fs EXCEPT ![self.name] = [name |-> self.name, role |-> self.role]],
          status |-> "ok",
          prompts |-> IF fs[self.name] # Absent THEN 1 ELSE 0]

\* SystemRole._save: the store after the call, whether it completed, and the
\* number of confirmation prompts shown.  answer is the user's reply to a prompt.
Save(fs, self, answer) ==
    IF Exists(fs, self.name) /\ ~answer
    THEN [files |-> fs, status |-> "Abort", prompts |-> 1]
    ELSE [files |-> [fs EXCEPT ![self.name] =
                        [name |-> self.name,
                         role |-> ROLE_TEMPLATE(self.name, self.role)]],
          status |-> "ok",
          prompts |-> IF Exists(fs, self.name) THEN 1 ELSE 0]

\* SystemRole.delete
Delete(fs, self, answer) ==
    IF Exists(fs, self.name) /\ ~answer
    THEN [files |-> fs, status |-> "Abort", prompts |-> 1]
    ELSE IF ~Exists(fs, self.name)
    THEN [files |-> fs, status |-> "FileNotFoundError", prompts |-> 0]
    ELSE [files |-> [fs EXCEPT ![self.name] = Absent], status |-> "ok", prompts |-> 1]

\* SystemRole.get
Get(fs, name) ==
    IF ~Exists(fs, name) THEN InstRaise("BadArgumentUsage")
    ELSE SystemRole(fs[name].name, fs[name].role, NoVariables)

\* The tuple of default roles create_defaults builds before its loop.
DefaultInstances(shell, os) ==
    LET vs == Mapping([k \in {"shell", "os"} |-> IF k = "shell" THEN shell ELSE os])
    IN  <<SystemRole("ShellGPT", DEFAULT_ROLE, vs),
          SystemRole("Shell Command Generator", SHELL_ROLE, vs),
          SystemRole("Shell Command Descriptor", DESCRIBE_SHELL_ROLE, vs),
          SystemRole("Code Generator", CODE_ROLE, NoVariables),
          SystemRole("Shell Command Fixer", SHELL_COMMAND_FIXER_ROLE, vs)>>

\* A loop of create_defaults that saves every role, the existing ones too.
RECURSIVE SaveEvery(_, _, _, _)
SaveEvery(acc, roles, i, answer) ==
    IF i > Len(roles) THEN acc
    ELSE LET s == Save(acc.files, roles[i].value, answer)
         IN  IF s.status # "ok"
             THEN [acc EXCEPT !.status = s.status,
                              !.prompts = acc.prompts + s.prompts]
             ELSE SaveEvery([files |-> s.files, status |-> "ok",
                             prompts |-> acc.prompts + s.prompts,
                             added |-> acc.added \cup {roles[i].value.name}],
                            roles, i + 1, answer)

\* The loop of create_defaults from its i-th role on; acc is the store, the
\* prompts shown and the names saved so far.
RECURSIVE SaveMissing(_, _, _, _)
SaveMissing(acc, roles, i, answer) ==
    IF i > Len(roles) THEN acc
    ELSE IF Exists(acc.files, roles[i].value.name)
    THEN SaveMissing(acc, roles, i + 1, answer)
    ELSE LET s == Save(acc.files, roles[i].value, answer)
         IN  IF s.status # "ok"
             THEN [acc EXCEPT !.status = s.status,
                              !.prompts = acc.prompts + s.prompts]
             ELSE SaveMissing([files |-> s.files, status |-> "ok",
                               prompts |-> acc.prompts + s.prompts,
                               added |-> acc.added \cup {roles[i].value.name}],
                              roles, i + 1, answer)

\* SystemRole.create_defaults
create_defaults(fs, shell, os, answer) ==
    LET roles == DefaultInstances(shell, os)
        start == [files |-> fs, status |-> "ok", prompts |-> 0, added |-> {}]
    IN  IF \E i \in 1..Len(roles) : roles[i].status # "ok"
        THEN [start EXCEPT !.status = "KeyError"]
        ELSE SaveMissing(start, roles, 1, answer)

\* A check_get that tests the code flag before the describe_shell flag.
check_get_code_first(fs, shell, describe_shell, code, shell_fix) ==
    IF shell THEN Get(fs, "Shell Command Generator")
    ELSE IF code THEN Get(fs, "Code Generator")
    ELSE IF describe_shell THEN Get(fs, "Shell Command Descriptor")
    ELSE IF shell_fix THEN Get(fs, "Shell Command Fixer")
    ELSE Get(fs, "ShellGPT")

\* DefaultRoles.check_get
check_get(fs, shell, describe_shell, code, shell_fix) ==
    IF shell THEN Get(fs, "Shell Command Generator")
    ELSE IF describe_shell THEN Get(fs, "Shell Command Descriptor")
    ELSE IF code THEN Get(fs, "Code Generator")
    ELSE IF shell_fix THEN Get(fs, "Shell Command Fixer")
    ELSE Get(fs, "ShellGPT")

(***************************************************************************)
(* The role store as a state machine.                                      *)
(***************************************************************************)
DefaultNames == {"ShellGPT", "Shell Command Generator", "Shell Command Descriptor",
                 "Code Generator", "Shell Command Fixer"}
\* A role the user authors (the bash integration asks for it by name).
UserNames == {"description_subject_line_creator"}
Names == DefaultNames \cup UserNames

\* Values of _shell_name() and _os_name() on the hosts considered.
ShellNames == {"bash", "zsh"}
OsNames == {"Linux/Ubuntu 22.04.4 LTS"}

\* A role description a user may type at the prompt of create: it holds the
\* marker words and a brace field, which create must store as typed.
UserTexts == {<<"You are", " ", "a title writer for", " ", "{shell}", " ", "scripts.">>}

StoreInit ==
    /\ files = [n \in Names |-> Absent]
    /\ imported = FALSE
    /\ ops = 0
    /\ result = NoResult
    /\ NameIdle /\ InitIdle /\ ShellIdle

\* Importing sgpt.role runs SystemRole.create_defaults() (last line of the module).
ImportModule ==
    /\ ops < MaxOps
    /\ \E shell \in ShellNames, os \in OsNames, answer \in BOOLEAN :
          LET r == create_defaults(files, shell, os, answer)
          IN  /\ files' = r.files
              /\ result' = [NoResult EXCEPT !.op = "create_defaults",
                                            !.status = r.status,
                                            !.prompts = r.prompts,
                                            !.declined = r.prompts > 0 /\ ~answer,
                                            !.added = r.added]
    /\ imported' = TRUE
    /\ ops' = ops + 1
    /\ UNCHANGED <<nameVars, initVars, shellVars>>

\* SystemRole.create: prompt for the description, construct, save.
Create ==
    /\ imported
    /\ ops < MaxOps
    /\ \E name \in Names, text \in UserTexts, answer \in BOOLEAN :
          LET role == SystemRole(name, text, NoVariables)
              r == Save(files, role.value, answer)
          IN  /\ files' = r.files
              /\ result' = [NoResult EXCEPT !.op = "create", !.name = name,
                                            !.status = r.status,
                                            !.prompts = r.prompts,
                                            !.declined = r.prompts > 0 /\ ~answer]
    /\ ops' = ops + 1
    /\ UNCHANGED <<imported, nameVars, initVars, shellVars>>

\* _save on a record loaded with get.
SaveLoaded ==
    /\ imported
    /\ ops < MaxOps
    /\ \E name \in Names, answer \in BOOLEAN :
          /\ Exists(files, name)
          /\ LET r == Save(files, Get(files, name).value, answer)
             IN  /\ files' = r.files
                 /\ result' = [NoResult EXCEPT !.op = "save", !.name = name,
                                               !.status = r.status,
                                               !.prompts = r.prompts,
                                               !.declined = r.prompts > 0 /\ ~answer]
    /\ ops' = ops + 1
    /\ UNCHANGED <<imported, nameVars, initVars, shellVars>>

\* delete on a role of the given name.
DeleteRole ==
    /\ imported
    /\ ops < MaxOps
    /\ \E name \in Names, answer \in BOOLEAN :
          LET r == Delete(files, [name |-> name, role |-> <<>>], answer)
          IN  /\ files' = r.files
              /\ result' = [NoResult EXCEPT !.op = "delete", !.name = name,
                                            !.status = r.status,
                                            !.prompts = r.prompts,
                                            !.declined = r.prompts > 0 /\ ~answer]
    /\ ops' = ops + 1
    /\ UNCHANGED <<imported, nameVars, initVars, shellVars>>

\* SystemRole.get / show
GetRole ==
    /\ imported
    /\ \E name \in Names :
          LET r == Get(files, name)
          IN  result' = [NoResult EXCEPT !.op = "get", !.name = name,
                                         !.status = r.status, !.out = r.value]
    /\ UNCHANGED <<files, imported, ops, nameVars, initVars, shellVars>>

\* DefaultRoles.check_get with the flags of the command line.
CheckGet ==
    /\ imported
    /\ \E shell \in BOOLEAN, describe_shell \in BOOLEAN,
          code \in BOOLEAN, shell_fix \in BOOLEAN :
          LET r == check_get(files, shell, describe_shell, code, shell_fix)
          IN  result' = [NoResult EXCEPT
                            !.op = "check_get",
                            !.flags = <<shell, describe_shell, code, shell_fix>>,
                            !.status = r.status, !.out = r.value]
    /\ UNCHANGED <<files, imported, ops, nameVars, initVars, shellVars>>

StoreNext ==
    \/ ImportModule
    \/ Create
    \/ SaveLoaded
    \/ DeleteRole
    \/ GetRole
    \/ CheckGet

StoreSpec == StoreInit /\ [][StoreNext]_vars

(***************************************************************************)
(* Properties of the role store.                                           *)
(***************************************************************************)
\* A step that ran the named operation to its end or to its exception
\* (the read operations leave ops alone and are told by their result).
Ran(op) == ops' # ops /\ result'.op = op

\* C1: create_defaults is idempotent: it leaves every record that already
\* exists as it is, shows no confirmation prompt, and adds exactly the default
\* records that were missing.
C1_BootstrapIdempotent ==
    [][Ran("create_defaults") =>
          /\ \A n \in Names : Exists(files, n) => files'[n] = files[n]
          /\ result'.prompts = 0
          /\ \A n \in Names :
                Exists(files', n) <=> (Exists(files, n) \/ n \in DefaultNames)]_vars

\* create_defaults ran on a store that held some default records and lacked others.
C1_Witness ==
    /\ result.op = "create_defaults"
    /\ result.added # {}
    /\ result.added # DefaultNames
    /\ \A n \in DefaultNames : Exists(files, n)

\* C2: a declined confirmation of _save or delete aborts the operation and
\* leaves every persisted record as it was.
C2_DeclineKeepsStore ==
    [][((Ran("create") \/ Ran("save") \/ Ran("delete")) /\ result'.declined) =>
          /\ result'.status = "Abort"
          /\ files' = files]_vars

\* The user declined the prompt of a save or delete on a persisted record.
C2_Witness ==
    /\ result.op \in {"create", "save", "delete"}
    /\ result.declined
    /\ Exists(files, result.name)

\* The default role of each intent flag, in the order of priority.
FlagRoles == <<"Shell Command Generator", "Shell Command Descriptor",
               "Code Generator", "Shell Command Fixer">>

\* The role of the first flag set, ShellGPT when none is.
RoleOfFlags(flags) ==
    IF \A i \in 1..4 : ~flags[i] THEN "ShellGPT"
    ELSE FlagRoles[CHOOSE i \in 1..4 : flags[i] /\ \A j \in 1..(i - 1) : ~flags[j]]

AllDefaultsPersisted == \A n \in DefaultNames : Exists(files, n)

\* C3: with every default role persisted, check_get returns the record of
\* the highest-priority flag set (shell > describe_shell > code > shell_fix),
\* and the ShellGPT record when no flag is set.
C3_IntentPriority ==
    (result.op = "check_get" /\ AllDefaultsPersisted) =>
        /\ result.status = "ok"
        /\ result.out = files[RoleOfFlags(result.flags)]
        /\ result.out.name = RoleOfFlags(result.flags)

\* check_get ran with shell and code both set.
C3_Witness ==
    /\ result.op = "check_get"
    /\ AllDefaultsPersisted
    /\ result.flags = <<TRUE, FALSE, TRUE, FALSE>>
    /\ result.out.name = "Shell Command Generator"

\* C4: the role text of every persisted record begins with the header
\* "You are <name>" and a line break, <name> being the name it is stored under.
C4_HeaderInvariant ==
    \A n \in DOMAIN files :
        Exists(files, n) =>
            /\ files[n].name = n
            /\ Len(files[n].role) >= 4
            /\ SubSeq(files[n].role, 1, 4) = <<"You are", " ", n, NL>>

\* A persisted record was overwritten, by create or by a save after get, once
\* the user had confirmed.
C4_Witness ==
    /\ result.op \in {"create", "save"}
    /\ result.status = "ok"
    /\ result.prompts = 1
    /\ \E n \in DefaultNames : Exists(files, n)

\* C5: get_role_name applied to the persisted text of a default role that
\* create_defaults saved returns the name of the record.
C5_RoundTrip ==
    result.op = "create_defaults" =>
        \A n \in result.added : get_role_name(files[n].role) = Return(<<n>>)

\* create_defaults saved all five default roles.
C5_Witness ==
    /\ result.op = "create_defaults"
    /\ result.added = DefaultNames

(***************************************************************************)
(* Role instantiation: SystemRole.__init__ on a template and a mapping.    *)
(***************************************************************************)
\* The texts instantiated: the built-in templates and the user's descriptions.
Templates ==
    {[name |-> "ShellGPT", role |-> DEFAULT_ROLE],
     [name |-> "Shell Command Generator", role |-> SHELL_ROLE],
     [name |-> "Shell Command Descriptor", role |-> DESCRIBE_SHELL_ROLE],
     [name |-> "Code Generator", role |-> CODE_ROLE],
     [name |-> "Shell Command Fixer", role |-> SHELL_COMMAND_FIXER_ROLE]}
    \cup {[name |-> n, role |-> t] : n \in UserNames, t \in UserTexts}

\* The values a variable may be given.
ValuesOf(k) == IF k = "shell" THEN ShellNames
               ELSE IF k = "os" THEN OsNames
               ELSE {"alice"}

\* Every mapping of some of the variables, the empty one included.
Mappings ==
    UNION {{m \in [K -> ShellNames \cup OsNames \cup {"alice"}] :
               \A k \in K : m[k] \in ValuesOf(k)} :
           K \in SUBSET {"shell", "os", "user"}}

VariableArgs == {NoVariables} \cup {Mapping(m) : m \in Mappings}

InitInit ==
    /\ template \in Templates
    /\ variables \in VariableArgs
    /\ instance = InstPending
    /\ StoreIdle /\ NameIdle /\ ShellIdle

Instantiate ==
    /\ instance = InstPending
    /\ instance' = SystemRole(template.name, template.role, variables)
    /\ UNCHANGED <<template, variables, storeVars, nameVars, shellVars>>

InitNext == Instantiate

InitSpec == InitInit /\ [][InitNext]_vars

\* The mapping is one Python takes as true: given and not empty.
Truthy(vs) == vs.given /\ DOMAIN vs.map # {}

MissesField == \E k \in FieldsOf(template.role) : k \notin DOMAIN variables.map

\* C9 as stated: whatever the mapping (empty and omitted included), a
\* template that references a variable the mapping lacks fails to
\* instantiate with a formatting error, no record keeps a placeholder, and
\* a template without placeholders instantiates with no variables.
C9_FormatErrorsSurface ==
    instance # InstPending =>
        /\ MissesField => instance.status = "KeyError"
        /\ instance.status = "ok" => FieldsOf(instance.value.role) = {}
        /\ (FieldsOf(template.role) = {} /\ ~variables.given) => instance.status = "ok"

\* C9 amended: under a mapping that is given and not empty, a template that
\* references a variable the mapping lacks fails with a formatting error and
\* a record that is built keeps no placeholder; under an empty or omitted
\* mapping no expansion is attempted and the text is kept as it is.
C9_FormatErrorsUnderMapping ==
    instance # InstPending =>
        /\ (Truthy(variables) /\ MissesField) => instance.status = "KeyError"
        /\ (Truthy(variables) /\ instance.status = "ok") =>
              FieldsOf(instance.value.role) = {}
        /\ ~Truthy(variables) =>
              /\ instance.status = "ok"
              /\ instance.value = [name |-> template.name, role |-> template.role]

\* A template with {os} was instantiated under a mapping of shell alone.
C9_Witness ==
    /\ instance.status = "KeyError"
    /\ DOMAIN variables.map = {"shell"}
    /\ "os" \in FieldsOf(template.role)

(***************************************************************************)
(* Output extractor of the bash integration (sgpt/integration.py).         *)
(* sed works on the lines of its input one at a time.                      *)
(***************************************************************************)
\* The backtick lexeme (a TLA+ string cannot hold the character itself).
BT == "BACKTICK"

\* The lines echo "$text" hands to sed.
EchoLines(text) == Split(text, <<NL>>)

RECURSIVE JoinLines(_)
JoinLines(lines) ==
    IF lines = <<>> THEN <<>>
    ELSE IF Len(lines) = 1 THEN lines[1]
    ELSE lines[1] \o <<NL>> \o JoinLines(Tail(lines))

\* $(...): the output with the trailing line breaks removed.
RECURSIVE Capture(_)
Capture(text) ==
    IF text # <<>> /\ text[Len(text)] = NL
    THEN Capture(SubSeq(text, 1, Len(text) - 1))
    ELSE text

\* The output of a command that printed these lines, as $(...) captures it.
CaptureLines(lines) == Capture(JoinLines(lines))

\* /`\{1,\}bash[^`]*\( -c\)\?$/ : a backtick, "bash", and no backtick after it.
OpensBashFence(line) ==
    \E i \in 1..(Len(line) - 1) :
        /\ line[i] = BT
        /\ line[i + 1] = "bash"
        /\ \A j \in (i + 2)..Len(line) : line[j] # BT

\* /`{1,}$/ : in a basic regular expression the braces are literal.
EndsWithLiteralBraces(line) ==
    Len(line) >= 2 /\ line[Len(line) - 1] = BT /\ line[Len(line)] = "{1,}"

\* /`/
HasBacktick(line) == \E i \in 1..Len(line) : line[i] = BT

\* sed -n '/start/,/`/p' from line i on: a range opens at a line matching
\* start and closes at the next later line holding a backtick.  kind names
\* the start pattern, open tells whether a range is open at line i.
RECURSIVE SedRange(_, _, _, _)
SedRange(lines, kind, i, open) ==
    IF i > Len(lines) THEN <<>>
    ELSE IF open
    THEN <<lines[i]>> \o SedRange(lines, kind, i + 1, ~HasBacktick(lines[i]))
    ELSE IF (kind = "bash" /\ OpensBashFence(lines[i]))
            \/ (kind = "any" /\ EndsWithLiteralBraces(lines[i]))
    THEN <<lines[i]>> \o SedRange(lines, kind, i + 1, TRUE)
    ELSE SedRange(lines, kind, i + 1, FALSE)

\* ... | head -n 1, captured.
FirstPrinted(lines) == IF lines = <<>> THEN <<>> ELSE lines[1]

\* The number of backticks a line starts with.
RECURSIVE LeadingTicks(_)
LeadingTicks(line) ==
    IF line # <<>> /\ Head(line) = BT THEN 1 + LeadingTicks(Tail(line)) ELSE 0

\* The number of backticks a line ends with.
RECURSIVE TrailingTicks(_)
TrailingTicks(line) ==
    IF line # <<>> /\ line[Len(line)] = BT
    THEN 1 + TrailingTicks(SubSeq(line, 1, Len(line) - 1))
    ELSE 0

\* s/^`\{1,\}\([^`]*\)\?`\{1,\}$/\1/ : a line that is backticks, a run free
\* of backticks, backticks, becomes the run.
Unfence(line) ==
    LET a == LeadingTicks(line)
        b == TrailingTicks(line)
        mid == SubSeq(line, a + 1, Len(line) - b)
    IN  IF a = Len(line) THEN (IF a >= 2 THEN <<>> ELSE line)
        ELSE IF a >= 1 /\ b >= 1 /\ ~HasBacktick(mid) THEN mid
        ELSE line

\* sed 's/\n.*//' : no line sed reads holds a line break, so as written the
\* command changes nothing; once Python has turned \n into a line break the
\* script is cut in two, sed rejects it and prints nothing.
DropAfterNewline(lines, esc) == IF esc THEN <<>> ELSE lines

\* _parse_first_markdown, as the caller's $(...) receives it.
_parse_first_markdown(text, esc) ==
    LET lines == EchoLines(text)
        tagged == FirstPrinted(SedRange(lines, "bash", 1, FALSE))
        any == IF tagged = <<>>
               THEN FirstPrinted(SedRange(lines, "any", 1, FALSE))
               ELSE tagged
        first_code_block == IF any = <<>>
                            THEN CaptureLines(DropAfterNewline(lines, esc))
                            ELSE any
        out == EchoLines(first_code_block)
    IN  CaptureLines([i \in 1..Len(out) |-> Strip(Unfence(out[i]))])

\* s/^`\{1,\}bash[^`]*\( -c\)\?[[:space:]]*\n*// : backticks, "bash" and the
\* run free of backticks after it, at the start of a line.
DropOpeningFence(line) ==
    LET a == LeadingTicks(line)
    IN  IF a >= 1 /\ Len(line) > a /\ line[a + 1] = "bash"
        THEN LET after == SubSeq(line, a + 2, Len(line))
                 stop == Find(after, <<BT>>)
             IN  IF stop = 0 THEN <<>> ELSE SubSeq(after, stop, Len(after))
        ELSE line

\* s/[[:space:]]*\n*`\{1,\}$// : the backticks a line ends with, and the
\* white space before them.
DropClosingFence(line) ==
    LET b == TrailingTicks(line)
    IN  IF b >= 1 THEN RStrip(SubSeq(line, 1, Len(line) - b)) ELSE line

RECURSIVE Concat(_)
Concat(lines) == IF lines = <<>> THEN <<>> ELSE Head(lines) \o Concat(Tail(lines))

\* _parse_last_markdown, as the caller's $(...) receives it.  Its sed script
\* holds \n too: once Python has evaluated it sed rejects the script.
_parse_last_markdown(text, esc) ==
    LET last_code_block == CaptureLines(SedRange(EchoLines(text), "bash", 1, FALSE))
        out == EchoLines(last_code_block)
    IN  IF last_code_block = <<>> \/ esc THEN <<>>
        ELSE Concat([i \in 1..Len(out) |->
                        Strip(DropClosingFence(DropOpeningFence(out[i])))])

\* Lines a model answer is made of.
OutputLines ==
    {<<"Run this:">>,
     <<BT, BT, BT, "bash">>,
     <<BT, BT, BT, "bash", " ", "-c">>,
     <<BT, BT, BT>>,
     <<"ls", " ", "-la">>,
     <<" ", "echo hello", " ">>,
     <<BT, "pwd", BT>>,
     <<"x", " ", BT, "{1,}">>}

Outputs == {JoinLines(ls) : ls \in SeqsUpTo(OutputLines, MaxLines)}

\* What the user has typed when a key binding fires.
TypedLines == {<<>>, <<"gti", " ", "status">>}

ShellInit ==
    /\ markdown_text \in Outputs
    /\ escaped \in BOOLEAN
    /\ parsed = Pending
    /\ READLINE_LINE \in TypedLines
    /\ READLINE_POINT = Len(READLINE_LINE)
    /\ fixed = FALSE
    /\ StoreIdle /\ NameIdle /\ InitIdle

\* _parse_first_markdown "$markdown_text"
CallParseFirst ==
    /\ parsed = Pending
    /\ parsed' = Return(_parse_first_markdown(markdown_text, escaped))
    /\ UNCHANGED <<markdown_text, escaped, READLINE_LINE, READLINE_POINT, fixed,
                   storeVars, nameVars, initVars>>

\* _sgpt_bash_fix, markdown_text being what sgpt answered (fix_explanation).
SgptBashFix ==
    /\ ~fixed
    /\ fixed' = TRUE
    /\ IF READLINE_LINE # <<>>
       THEN LET fixed_command == _parse_last_markdown(markdown_text, escaped)
            IN  /\ READLINE_LINE' = fixed_command
                /\ READLINE_POINT' = Len(fixed_command)
       ELSE UNCHANGED <<READLINE_LINE, READLINE_POINT>>
    /\ UNCHANGED <<markdown_text, escaped, parsed, storeVars, nameVars, initVars>>

ShellNext ==
    \/ CallParseFirst
    \/ SgptBashFix

ShellSpec == ShellInit /\ [][ShellNext]_vars

TextLines == EchoLines(markdown_text)

\* A line that opens a block tagged bash: backticks, "bash", perhaps " -c".
IsBashFenceLine(line) ==
    /\ LeadingTicks(line) >= 1
    /\ SubSeq(line, LeadingTicks(line) + 1, Len(line)) \in
          {<<"bash">>, <<"bash", " ", "-c">>}

\* A line that closes a block: backticks alone.
IsClosingFenceLine(line) == line # <<>> /\ LeadingTicks(line) = Len(line)

\* Some line opens a block tagged bash and a later line closes it.
HasBashBlock ==
    \E i \in 1..Len(TextLines) : \E j \in (i + 1)..Len(TextLines) :
        IsBashFenceLine(TextLines[i]) /\ IsClosingFenceLine(TextLines[j])

\* The first line that opens a block tagged bash, and the line that closes it.
FirstBashOpen ==
    CHOOSE i \in 1..Len(TextLines) :
        /\ IsBashFenceLine(TextLines[i])
        /\ \A k \in 1..(i - 1) : ~IsBashFenceLine(TextLines[k])

FirstBashClose ==
    CHOOSE j \in (FirstBashOpen + 1)..Len(TextLines) :
        /\ IsClosingFenceLine(TextLines[j])
        /\ \A k \in (FirstBashOpen + 1)..(j - 1) : ~IsClosingFenceLine(TextLines[k])

\* C6: when the output holds a block tagged bash, _parse_first_markdown
\* returns what the first such block holds, without the fence lines and the
\* white space around it, the line breaks inside it kept.
C6_TaggedFenceContent ==
    (parsed # Pending /\ HasBashBlock) =>
        parsed.value =
            Capture(Strip(JoinLines(SubSeq(TextLines, FirstBashOpen + 1,
                                           FirstBashClose - 1))))

\* C7: when the output has several lines and no fence at all,
\* _parse_first_markdown returns its first line and nothing after it.
C7_FirstLineFallback ==
    (parsed # Pending /\ Len(TextLines) >= 2 /\ ~HasBacktick(markdown_text)) =>
        parsed.value = Strip(TextLines[1])

\* C8: when the fix handler runs on a line that is not empty and the answer
\* holds no fence tagged bash, the line buffer stays what it was.
C8_EmptyFixKeepsLine ==
    [][(fixed' /\ ~fixed /\ READLINE_LINE # <<>>
           /\ \A i \in 1..Len(TextLines) : ~OpensBashFence(TextLines[i])) =>
          READLINE_LINE' = READLINE_LINE]_vars

====
